---- MODULE Spec2Model ----
(***************************************************************************)
(* Model of the localization-and-steering control loop of src/src/main.rs. *)
(*                                                                         *)
(* Fixed-point conventions: angles are in milliradians, speeds in          *)
(* thousandths of the normalized speed, positions and frame sizes in whole *)
(* pixels, time in units of 100 ms.                                        *)
(***************************************************************************)
EXTENDS Integers, Sequences, FiniteSets, TLC

VARIABLES tl, tr, bl, br, target, elapsed, no_car_count, oracle_env,
          pc, car, w, h, slept, det_errs, sent, outcome, miss_run, spins,
          last_seen, seen, polls, fn_in, fn_out

vars == <<tl, tr, bl, br, target, elapsed, no_car_count, oracle_env,
          pc, car, w, h, slept, det_errs, sent, outcome, miss_run, spins,
          last_seen, seen, polls, fn_in, fn_out>>

\* ---------------------------------------------------------------- options

None == <<>>

Some(x) == <<x>>

IsSome(o) == Len(o) = 1

Unwrap(o) == o[1]

\* -------------------------------------------------------------- constants

\* std::f64::consts::PI, in milliradians.
PI == 3142

HALF_PI == PI \div 2

QUARTER_PI == PI \div 4

ANGLE_OK == 500

TURN_POLARITY == -1

CAR_MARKER_ID == 9

ARRIVE_PX == 50

TURN_SPEED == 200

SPIN_SPEED == 450

MIN_SPEED == 450

MAX_SPEED == 850

SPEED_DIVISOR == 300

MISS_LIMIT == 3

\* Duration::from_secs(2), in units of 100 ms.
ORACLE_PERIOD == 20

TICK_SLEEP == 1

IDLE_SLEEP == 2

ID_TL == 13

ID_TR == 11

ID_BL == 14

ID_BR == 12

Quadrants == {"TopLeft", "TopRight", "BottomLeft", "BottomRight"}

\* ---------------------------------------------------------------- numerics

Abs(x) == IF x < 0 THEN -x ELSE x

\* Floor of the square root, found by descending powers of two.
RECURSIVE IsqrtStep(_, _, _)
IsqrtStep(n, r, step) ==
    IF step = 0 THEN r
    ELSE IF (r + step) * (r + step) <= n THEN IsqrtStep(n, r + step, step)
         ELSE IsqrtStep(n, r, step \div 2)

Isqrt(n) == IsqrtStep(n, 0, 16384)

\* f64 sqrt / hypot of (dx, dy), in tenths of a pixel (rounded down).
Dist10(dx, dy) == Isqrt(100 * (dx * dx + dy * dy))

\* atan of the ratio lo/hi, 0 <= lo <= hi, hi > 0, in milliradians
\* (quadratic fit, exact at ratio 0 and 1, within 4 mrad in between).
AtanRatio(lo, hi) ==
    LET r == (1000 * lo) \div hi
    IN  (QUARTER_PI * r + (273 * r * (1000 - r)) \div 1000) \div 1000

\* f64::atan2(dy, dx) with the result in [-PI, PI]; atan2(0, 0) = 0 and
\* atan2(+0, negative) = PI as in IEEE 754.
Atan2(dy, dx) ==
    IF dx = 0 /\ dy = 0 THEN 0
    ELSE LET ax == Abs(dx)
             ay == Abs(dy)
             a  == IF ay <= ax THEN AtanRatio(ay, ax)
                   ELSE HALF_PI - AtanRatio(ax, ay)
         IN  IF dx >= 0 THEN (IF dy >= 0 THEN a ELSE -a)
             ELSE (IF dy >= 0 THEN PI - a ELSE a - PI)

Clamp(x, lo, hi) == IF x < lo THEN lo ELSE IF x > hi THEN hi ELSE x

\* ------------------------------------------------------------- Quadrant

\* Mutant of from_pos: the midline comparisons are >= instead of >.
from_pos_midline_high(x, y, fw, fh) ==
    LET right  == 2 * x >= fw
        bottom == 2 * y >= fh
    IN  IF ~right /\ ~bottom THEN "TopLeft"
        ELSE IF right /\ ~bottom THEN "TopRight"
        ELSE IF ~right /\ bottom THEN "BottomLeft"
        ELSE "BottomRight"

\* Quadrant::from_pos: x > w / 2.0 is 2x > w.
from_pos(x, y, fw, fh) ==
    LET right  == 2 * x > fw
        bottom == 2 * y > fh
    IN  IF ~right /\ ~bottom THEN "TopLeft"
        ELSE IF right /\ ~bottom THEN "TopRight"
        ELSE IF ~right /\ bottom THEN "BottomLeft"
        ELSE "BottomRight"

\* ---------------------------------------------------------------- steer

\* The second loop of the normalization: while err < -PI { err += 2 PI }.
RECURSIVE NormalizeUp(_)
NormalizeUp(err) == IF err < -PI THEN NormalizeUp(err + 2 * PI) ELSE err

\* Mutant of normalize: the second loop is missing.
RECURSIVE normalize_down_only(_)
normalize_down_only(err) ==
    IF err > PI THEN normalize_down_only(err - 2 * PI) ELSE err

\* while err > PI { err -= 2 PI }; while err < -PI { err += 2 PI }.
RECURSIVE normalize(_)
normalize(err) == IF err > PI THEN normalize(err - 2 * PI) ELSE NormalizeUp(err)

\* The heading error steer computes for a pose and a target.
heading_error(pos, hdg, tgt) ==
    LET dx == tgt[1] - pos[1]
        dy == tgt[2] - pos[2]
    IN  normalize(Atan2(dy, dx) - hdg)

\* Mutant of turn_cmd: the sign of the error is taken the other way round.
turn_cmd_reversed(err) ==
    [speed |-> TURN_POLARITY * (IF err > 0 THEN -TURN_SPEED ELSE TURN_SPEED),
     flip  |-> TRUE]

\* The turn branch of steer.
turn_cmd(err) ==
    [speed |-> TURN_POLARITY * (IF err > 0 THEN TURN_SPEED ELSE -TURN_SPEED),
     flip  |-> TRUE]

\* Mutant of forward_cmd: the speed is not clamped.
forward_cmd_unclamped(dist10) ==
    [speed |-> (dist10 * 100) \div SPEED_DIVISOR, flip |-> FALSE]

\* The forward branch of steer: (dist / 300.0).clamp(0.45, 0.85).
forward_cmd(dist10) ==
    [speed |-> Clamp((dist10 * 100) \div SPEED_DIVISOR, MIN_SPEED, MAX_SPEED),
     flip  |-> FALSE]

\* Mutant of needs_turn: the tolerance itself already turns.
needs_turn_at_tolerance(err) == Abs(err) >= ANGLE_OK

\* steer's choice between turning in place and driving forward.
needs_turn(err) == Abs(err) > ANGLE_OK

steer(pos, hdg, tgt) ==
    LET dx     == tgt[1] - pos[1]
        dy     == tgt[2] - pos[2]
        dist10 == Dist10(dx, dy)
        err    == heading_error(pos, hdg, tgt)
    IN  IF needs_turn(err) THEN turn_cmd(err) ELSE forward_cmd(dist10)

\* ----------------------------------------------------------- Quadrant::parse

LowerCase == <<"a", "b", "c", "d", "e", "f", "g", "h", "i", "j", "k", "l", "m",
               "n", "o", "p", "q", "r", "s", "t", "u", "v", "w", "x", "y", "z">>

UpperCase == <<"A", "B", "C", "D", "E", "F", "G", "H", "I", "J", "K", "L", "M",
               "N", "O", "P", "Q", "R", "S", "T", "U", "V", "W", "X", "Y", "Z">>

\* char::to_ascii_uppercase
UpperChar(c) ==
    IF \E i \in 1..26 : LowerCase[i] = c
    THEN UpperCase[CHOOSE i \in 1..26 : LowerCase[i] = c]
    ELSE c

\* str::to_ascii_uppercase, strings being sequences of characters.
to_ascii_uppercase(s) == [i \in 1..Len(s) |-> UpperChar(s[i])]

RECURSIVE TrimStart(_)
TrimStart(s) == IF s # <<>> /\ Head(s) = " " THEN TrimStart(Tail(s)) ELSE s

RECURSIVE TrimEnd(_)
TrimEnd(s) ==
    IF s # <<>> /\ s[Len(s)] = " " THEN TrimEnd(SubSeq(s, 1, Len(s) - 1)) ELSE s

\* str::trim
trim(s) == TrimEnd(TrimStart(s))

CodesTopLeft ==
    {<<"1", "3">>, <<"T", "L">>, <<"Q", "1">>, <<"1">>,
     <<"T", "O", "P", "_", "L", "E", "F", "T">>}

CodesTopRight ==
    {<<"1", "1">>, <<"T", "R">>, <<"Q", "2">>, <<"2">>,
     <<"T", "O", "P", "_", "R", "I", "G", "H", "T">>}

CodesBottomLeft ==
    {<<"1", "4">>, <<"B", "L">>, <<"Q", "3">>, <<"3">>,
     <<"B", "O", "T", "T", "O", "M", "_", "L", "E", "F", "T">>}

CodesBottomRight ==
    {<<"1", "2">>, <<"B", "R">>, <<"Q", "4">>, <<"4">>,
     <<"B", "O", "T", "T", "O", "M", "_", "R", "I", "G", "H", "T">>}

\* Quadrant::parse
parse(s) ==
    LET code == to_ascii_uppercase(trim(s))
    IN  IF code \in CodesTopLeft THEN Some("TopLeft")
        ELSE IF code \in CodesTopRight THEN Some("TopRight")
        ELSE IF code \in CodesBottomLeft THEN Some("BottomLeft")
        ELSE IF code \in CodesBottomRight THEN Some("BottomRight")
        ELSE None

\* ------------------------------------------------------------------ bounds

\* The miss counter is a u32; the model stops counting misses at MaxMisses.
MaxMisses == 5

\* Longest time a tick's network calls take, in units of 100 ms.
MaxLatency == 3

\* ------------------------------------------------------------------ inputs

Cameras == {1, 2}

LandmarkIds == {ID_TL, ID_TR, ID_BL, ID_BR}

\* Where each camera sees a quadrant landmark (the cameras' image
\* coordinates differ).
LandmarkAt(cam, id) ==
    IF cam = 1
    THEN (IF id = ID_TL THEN <<160, 120>> ELSE IF id = ID_TR THEN <<480, 120>>
          ELSE IF id = ID_BL THEN <<160, 360>> ELSE <<480, 360>>)
    ELSE (IF id = ID_TL THEN <<200, 150>> ELSE IF id = ID_TR THEN <<600, 150>>
          ELSE IF id = ID_BL THEN <<200, 450>> ELSE <<600, 450>>)

Obs(pos, hdg) == [pos |-> pos, hdg |-> hdg]

\* Poses of the vehicle marker a frame may show.
CarPoses ==
    {Obs(<<160, 170>>, -1071), Obs(<<190, 150>>, 0), Obs(<<400, 300>>, -2618)}

\* The sets of quadrant landmarks a frame may show.
VisibleSets ==
    {{}, {ID_TL}, {ID_BR}, {ID_TL, ID_BR}, {ID_TR, ID_BL}}

Cols(cam) == IF cam = 1 THEN 640 ELSE 800

Rows(cam) == IF cam = 1 THEN 480 ELSE 600

\* The HashMap detect_car returns for a frame of camera cam that shows the
\* landmarks in marks and the vehicle marker as carOpt.
ItemsOf(cam, marks, carOpt) ==
    [id \in marks \cup (IF IsSome(carOpt) THEN {CAR_MARKER_ID} ELSE {}) |->
        IF id = CAR_MARKER_ID THEN Unwrap(carOpt) ELSE Obs(LandmarkAt(cam, id), 0)]

\* What a tick gets from one camera: no frame (fetch or decode failed), a
\* frame on which detect_car fails, or a frame with its detected markers.
Frames(cam) ==
    {[kind |-> "absent", items |-> <<>>, cols |-> 0, rows |-> 0],
     [kind |-> "undetectable", items |-> <<>>, cols |-> Cols(cam), rows |-> Rows(cam)]}
    \cup
    {[kind |-> "detected", items |-> ItemsOf(cam, marks, carOpt),
      cols |-> Cols(cam), rows |-> Rows(cam)] :
        marks \in VisibleSets, carOpt \in {None} \cup {Some(c) : c \in CarPoses}}

\* The ORACLE variable at build time: unset, a quadrant code, or other text.
BuildEnvs == {None, Some(<<"b", "r">>), Some(<<"n", "o", "r", "t", "h">>)}

\* What one request to the oracle yields: a transport failure or a body
\* (after the JSON unwrapping of query_oracle).
OracleReplies ==
    {[ok |-> FALSE, raw |-> <<>>],
     [ok |-> TRUE, raw |-> <<"1", "3">>],
     [ok |-> TRUE, raw |-> <<" ", "t", "r", " ">>],
     [ok |-> TRUE, raw |-> <<"Q", "3">>],
     [ok |-> TRUE, raw |-> <<"b", "o", "t", "t", "o", "m", "_", "r", "i", "g", "h", "t">>],
     [ok |-> TRUE, raw |-> <<"5">>]}

\* ------------------------------------------------------------ query_oracle

\* The result of query_oracle: a panic (unwrap of an unparseable ORACLE),
\* Ok(quadrant) or Err.
query_oracle(env, reply) ==
    IF IsSome(env)
    THEN (IF IsSome(parse(Unwrap(env)))
          THEN [kind |-> "ok", q |-> parse(Unwrap(env))]
          ELSE [kind |-> "panic", q |-> None])
    ELSE IF reply.ok /\ IsSome(parse(reply.raw))
         THEN [kind |-> "ok", q |-> parse(reply.raw)]
         ELSE [kind |-> "err", q |-> None]

\* --------------------------------------------------------------- main loop

\* Instant::elapsed after d more units; every value of at least
\* ORACLE_PERIOD is represented by ORACLE_PERIOD.
Advance(e, d) == IF e + d >= ORACLE_PERIOD THEN ORACLE_PERIOD ELSE e + d

\* The landmark slot of a quadrant.
slot_of(q) ==
    IF q = "TopLeft" THEN tl ELSE IF q = "TopRight" THEN tr
    ELSE IF q = "BottomLeft" THEN bl ELSE br

\* items.get(&id)
Get(items, id) == IF id \in DOMAIN items THEN Some(items[id]) ELSE None

\* History of the landmark observations: the latest observation of each
\* landmark marker in any detected frame, None while it was never seen.
NothingSeen == [id \in LandmarkIds |-> None]

\* History of the oracle polls, before the first tick: whether the current
\* tick polled, the time since the last attempt when it decided, the target
\* before it, the result of the latest attempt, whether that attempt logged
\* a new target, the result of the attempt before it, and what the first
\* tick did.
NoPolls ==
    [polled |-> FALSE, waited |-> 0, start |-> None, before |-> None,
     res |-> [kind |-> "none", q |-> None], note |-> FALSE,
     prev |-> [kind |-> "none", q |-> None], first |-> "pending"]

Init ==
    /\ tl = None /\ tr = None /\ bl = None /\ br = None
    /\ target = None
    /\ elapsed = ORACLE_PERIOD
    /\ no_car_count = 0
    /\ oracle_env \in BuildEnvs
    /\ pc = "loop"
    /\ car = None /\ w = None /\ h = None
    /\ slept = 0 /\ det_errs = 0
    /\ sent = <<>>
    /\ outcome = "Start"
    /\ miss_run = 0 /\ spins = 0
    /\ last_seen = NothingSeen
    /\ seen = <<>>
    /\ polls = NoPolls
    /\ fn_in = None /\ fn_out = None

\* A wait for the target that counts as a vehicle miss.
AwaitTarget_counting_idle(tgt, el) ==
    /\ target' = tgt
    /\ car' = None /\ w' = None /\ h' = None
    /\ sent' = <<>>
    /\ det_errs' = 0
    /\ IF tgt = None
       THEN /\ outcome' = "NoTarget"
            /\ slept' = IDLE_SLEEP
            /\ elapsed' = Advance(el, IDLE_SLEEP)
            /\ no_car_count' = no_car_count + 1
            /\ pc' = "loop"
       ELSE /\ outcome' = "Running"
            /\ slept' = 0
            /\ elapsed' = el
            /\ UNCHANGED no_car_count
            /\ pc' = "frame1"
    /\ UNCHANGED <<tl, tr, bl, br, oracle_env, miss_run, spins, fn_in, fn_out>>

\* let Some(tgt) = target else { sleep(200 ms); continue }, with the target
\* and the elapsed time left by the oracle poll.
AwaitTarget(tgt, el) ==
    /\ target' = tgt
    /\ car' = None /\ w' = None /\ h' = None
    /\ sent' = <<>>
    /\ det_errs' = 0
    /\ IF tgt = None
       THEN /\ outcome' = "NoTarget"
            /\ slept' = IDLE_SLEEP
            /\ elapsed' = Advance(el, IDLE_SLEEP)
            /\ pc' = "loop"
       ELSE /\ outcome' = "Running"
            /\ slept' = 0
            /\ elapsed' = el
            /\ pc' = "frame1"
    /\ UNCHANGED <<tl, tr, bl, br, no_car_count, oracle_env, miss_run, spins,
                   fn_in, fn_out>>

\* The process died of a panic.
Panic ==
    /\ pc' = "panicked"
    /\ outcome' = "Panic"
    /\ UNCHANGED <<tl, tr, bl, br, target, elapsed, no_car_count, oracle_env,
                   car, w, h, slept, det_errs, sent, miss_run, spins,
                   fn_in, fn_out>>

\* The poll due only after more than two seconds.
poll_due_late(e) == e > ORACLE_PERIOD

\* if last_oracle.elapsed() >= Duration::from_secs(2)
poll_due(e) == e >= ORACLE_PERIOD

\* Every successful poll taken for a new target.
new_target_every_ok(tgt, res) == res.kind = "ok"

\* Ok(q) with target != Some(q): the poll names a new target, which is
\* logged ("New target quadrant") and stored.
new_target(tgt, res) == res.kind = "ok" /\ tgt # res.q

\* A poll that fails forgets the target.
target_after_err_clears(tgt, res) == IF res.kind = "ok" THEN res.q ELSE None

\* The target after a poll with result res.
target_after(tgt, res) == IF new_target(tgt, res) THEN res.q ELSE tgt

\* The oracle poll with the oracle's reply, then last_oracle = now and the
\* target check.
Poll(reply) ==
    LET res == query_oracle(oracle_env, reply)
    IN  IF res.kind = "panic" THEN Panic
        ELSE AwaitTarget(target_after(target, res), 0)

\* The specification of the whole loop records no history of the polls or
\* of the frames.
NoAudit == UNCHANGED <<seen, polls>>

\* The oracle poll of a tick on which it is due, then the target check.
PollOracle ==
    /\ pc = "loop"
    /\ poll_due(elapsed)
    /\ \E reply \in OracleReplies : Poll(reply)
    /\ UNCHANGED last_seen
    /\ NoAudit

\* A tick on which the poll is not due goes straight to the target check.
SkipPoll ==
    /\ pc = "loop"
    /\ ~poll_due(elapsed)
    /\ AwaitTarget(target, elapsed)
    /\ UNCHANGED last_seen
    /\ NoAudit

\* A detector failure taken for a detection of no marker.
detect_car_empty_on_error(f) ==
    IF f.kind = "detected" THEN Some(f.items) ELSE Some(<<>>)

\* match detect_car(&detector, &frame): Ok(items) or Err.
detect_car(f) == IF f.kind = "detected" THEN Some(f.items) ELSE None

\* A slot that forgets a landmark the frame does not show.
update_slot_clearing(slot, items, id) == Get(items, id)

\* if let Some(&pos) = items.get(&id) { slot = Some(pos) }
update_slot(slot, items, id) ==
    IF id \in DOMAIN items THEN Some(items[id]) ELSE slot

\* The fused vehicle is that of the latest frame showing the target landmark.
fuse_car_latest(fused, frame_car, found) ==
    IF fused = None \/ found THEN frame_car ELSE fused

\* The fused vehicle is always that of the first frame showing it.
fuse_car_first_only(fused, frame_car, found) ==
    IF fused = None THEN frame_car ELSE fused

\* if car.is_none() || (frame_car.is_some() && found) { car = frame_car }
fuse_car(fused, frame_car, found) ==
    IF fused = None \/ (IsSome(frame_car) /\ found) THEN frame_car ELSE fused

\* One pass of the loop over the fetched frames, for the frame of camera
\* cam; lat is the time the network calls took.
ProcessFrame(cam, f, lat, next) ==
    LET tgt       == Unwrap(target)
        detection == detect_car(f)
        items     == Unwrap(detection)
        frame_car == Get(items, CAR_MARKER_ID)
        found     == \/ ID_TL \in DOMAIN items /\ tgt = "TopLeft"
                     \/ ID_TR \in DOMAIN items /\ tgt = "TopRight"
                     \/ ID_BL \in DOMAIN items /\ tgt = "BottomLeft"
                     \/ ID_BR \in DOMAIN items /\ tgt = "BottomRight"
    IN  /\ pc' = next
        /\ IF f.kind = "absent"
           THEN /\ elapsed' = Advance(elapsed, lat)
                /\ UNCHANGED <<tl, tr, bl, br, car, w, h, slept, det_errs>>
           ELSE IF detection = None
           THEN /\ slept' = slept + TICK_SLEEP
                /\ det_errs' = det_errs + 1
                /\ elapsed' = Advance(elapsed, lat + TICK_SLEEP)
                /\ UNCHANGED <<tl, tr, bl, br, car, w, h>>
           ELSE /\ tl' = update_slot(tl, items, ID_TL)
                /\ tr' = update_slot(tr, items, ID_TR)
                /\ bl' = update_slot(bl, items, ID_BL)
                /\ br' = update_slot(br, items, ID_BR)
                /\ car' = fuse_car(car, frame_car, found)
                /\ w' = IF w = None \/ found THEN Some(f.cols) ELSE w
                /\ h' = IF h = None \/ found THEN Some(f.rows) ELSE h
                /\ elapsed' = Advance(elapsed, lat)
                /\ UNCHANGED <<slept, det_errs>>
        /\ UNCHANGED <<target, no_car_count, oracle_env, sent, outcome,
                       miss_run, spins, fn_in, fn_out>>

\* History: the landmark observations of a processed frame are the latest
\* ones of their markers; a frame that is absent or undetectable shows none.
Remember(f) ==
    last_seen' = [id \in LandmarkIds |->
                    IF f.kind = "detected" /\ id \in DOMAIN f.items
                    THEN Some(f.items[id]) ELSE last_seen[id]]

\* Camera 1: both frames are fetched, then camera 1's frame is processed.
ProcessFrame1 ==
    /\ pc = "frame1"
    /\ \E f \in Frames(1), lat \in {0, MaxLatency} :
          ProcessFrame(1, f, lat, "frame2") /\ Remember(f)
    /\ NoAudit

\* Camera 2's frame is processed.
ProcessFrame2 ==
    /\ pc = "frame2"
    /\ \E f \in Frames(2) : ProcessFrame(2, f, 0, "decide") /\ Remember(f)
    /\ NoAudit

\* Mutant of should_spin: the spin starts when the counter reaches 3.
should_spin_at_limit(count) == count >= MISS_LIMIT

\* if no_car_count > 3
should_spin(count) == count > MISS_LIMIT

\* Mutant of arrived: a distance of exactly 50 px counts as arrived.
arrived_inclusive(dist10) == dist10 <= ARRIVE_PX * 10

\* if dist < 50.0, the distance in tenths of a pixel.
arrived(dist10) == dist10 < ARRIVE_PX * 10

\* The search spin: send_cmd(0.45 * TURN_POLARITY, true).
spin_cmd == [speed |-> SPIN_SPEED * TURN_POLARITY, flip |-> TRUE]

\* The hold command: send_cmd(0.0, false).
hold_cmd == [speed |-> 0, flip |-> FALSE]

\* send_cmd: the command goes out and the request succeeds or fails.
Dispatch(cmd, ok) == <<[cmd |-> cmd, ok |-> ok]>>

\* An iteration that ends without its sleep.
EndTick_without_sleep(kind, d) ==
    /\ outcome' = kind
    /\ miss_run' = IF kind = "CarMissing" THEN miss_run + 1 ELSE 0
    /\ spins' = IF kind = "CarMissing" THEN spins + Len(sent') ELSE 0
    /\ slept' = slept
    /\ elapsed' = elapsed
    /\ pc' = "loop"

\* The end of an iteration that sleeps d units and loops. miss_run and
\* spins keep the history of the run of vehicle-missing ticks: its length
\* and the search spins dispatched in it.
EndTick(kind, d) ==
    /\ outcome' = kind
    /\ miss_run' = IF kind = "CarMissing" THEN miss_run + 1 ELSE 0
    /\ spins' = IF kind = "CarMissing" THEN spins + Len(sent') ELSE 0
    /\ slept' = slept + d
    /\ elapsed' = Advance(elapsed, d)
    /\ pc' = "loop"

\* match car { None => ... }
CarMissing ==
    /\ no_car_count < MaxMisses
    /\ no_car_count' = no_car_count + 1
    /\ \E ok \in BOOLEAN :
          sent' = IF should_spin(no_car_count + 1)
                  THEN Dispatch(spin_cmd, ok)
                  ELSE <<>>
    /\ EndTick("CarMissing", TICK_SLEEP)

\* The miss counter survives a tick that found the vehicle.
found_count_kept == no_car_count

\* no_car_count = 0
found_count == 0

\* match car { Some((pos, heading)) => ... }
CarFound ==
    LET pos        == Unwrap(car).pos
        heading    == Unwrap(car).hdg
        slot       == slot_of(Unwrap(target))
        tgt_centre == Unwrap(slot).pos
        dist10     == Dist10(pos[1] - tgt_centre[1], pos[2] - tgt_centre[2])
    IN  /\ no_car_count' = found_count
        /\ IF slot = None
           THEN /\ sent' = <<>>
                /\ EndTick("TargetUnresolvable", TICK_SLEEP)
           ELSE IF arrived(dist10)
           THEN /\ \E ok \in BOOLEAN :
                      sent' = Dispatch(hold_cmd, ok)
                /\ EndTick("Arrived", TICK_SLEEP)
           ELSE /\ \E ok \in BOOLEAN :
                      sent' = Dispatch(steer(pos, heading, tgt_centre), ok)
                /\ EndTick("Steering", TICK_SLEEP)

\* After the frames: unwrap the frame size, then act on the fused vehicle.
Decide ==
    /\ pc = "decide"
    /\ IF w = None \/ h = None
       THEN Panic
       ELSE /\ IF car = None THEN CarMissing ELSE CarFound
            /\ UNCHANGED <<tl, tr, bl, br, target, oracle_env, car, w, h,
                           det_errs, fn_in, fn_out>>
    /\ UNCHANGED <<last_seen, seen, polls>>

Next == PollOracle \/ SkipPoll \/ ProcessFrame1 \/ ProcessFrame2 \/ Decide

Spec == Init /\ [][Next]_vars

\* ------------------------------------------------- the polls, with history

\* The frames of the specification of the polls: camera 1 detects the
\* vehicle alone, the vehicle with two landmarks, or nothing; camera 2
\* yields no detected frame.
PollFrames(cam) ==
    IF cam = 1
    THEN {f \in Frames(1) :
            /\ f.kind = "detected"
            /\ DOMAIN f.items \in
                 {{}, {CAR_MARKER_ID}, {ID_TL, ID_BR, CAR_MARKER_ID}}}
    ELSE {f \in Frames(2) : f.kind # "detected"}

\* PollOracle, recording the attempt: the target before it, its result,
\* whether it logged a new target, and the result of the attempt before.
PollAudited ==
    /\ pc = "loop"
    /\ poll_due(elapsed)
    /\ \E reply \in OracleReplies :
          LET res == query_oracle(oracle_env, reply)
          IN  /\ Poll(reply)
              /\ polls' = [polled |-> TRUE, waited |-> elapsed,
                           start |-> target, before |-> target, res |-> res,
                           note |-> new_target(target, res),
                           prev |-> polls.res,
                           first |-> IF polls.first = "pending"
                                     THEN "polled" ELSE polls.first]
    /\ UNCHANGED <<last_seen, seen>>

\* SkipPoll, recording that the tick did not poll.
SkipAudited ==
    /\ pc = "loop"
    /\ ~poll_due(elapsed)
    /\ AwaitTarget(target, elapsed)
    /\ polls' = [polls EXCEPT !.polled = FALSE, !.waited = elapsed,
                              !.start = target,
                              !.first = IF @ = "pending" THEN "skipped" ELSE @]
    /\ UNCHANGED <<last_seen, seen>>

PollFrame1 ==
    /\ pc = "frame1"
    /\ \E f \in PollFrames(1), lat \in {0, MaxLatency} :
          ProcessFrame(1, f, lat, "frame2") /\ Remember(f)
    /\ UNCHANGED <<seen, polls>>

PollFrame2 ==
    /\ pc = "frame2"
    /\ \E f \in PollFrames(2) : ProcessFrame(2, f, 0, "decide") /\ Remember(f)
    /\ UNCHANGED <<seen, polls>>

PollNext ==
    PollAudited \/ SkipAudited \/ PollFrame1 \/ PollFrame2 \/ Decide

PollSpec == Init /\ [][PollNext]_vars

\* ---------------------------------------- one tick's frames, with history

\* What a landmark slot may hold when a tick starts: nothing, or what
\* camera 1 saw on an earlier tick.
EarlierSlot(id) == {None, Some(Obs(LandmarkAt(1, id), 0))}

\* A tick with a target, about to process its frames.
FuseInit ==
    /\ tl \in EarlierSlot(ID_TL) /\ tr \in EarlierSlot(ID_TR)
    /\ bl \in EarlierSlot(ID_BL) /\ br \in EarlierSlot(ID_BR)
    /\ target \in {Some(q) : q \in Quadrants}
    /\ elapsed = 0
    /\ no_car_count = 0
    /\ oracle_env = None
    /\ pc = "frame1"
    /\ car = None /\ w = None /\ h = None
    /\ slept = 0 /\ det_errs = 0
    /\ sent = <<>>
    /\ outcome = "Running"
    /\ miss_run = 0 /\ spins = 0
    /\ last_seen = [id \in LandmarkIds |->
                      IF id = ID_TL THEN tl ELSE IF id = ID_TR THEN tr
                      ELSE IF id = ID_BL THEN bl ELSE br]
    /\ seen = <<>>
    /\ polls = NoPolls
    /\ fn_in = None /\ fn_out = None

\* ProcessFrame1 and ProcessFrame2, recording the frame each one got.
FuseFrame1 ==
    /\ pc = "frame1"
    /\ \E f \in Frames(1) :
          /\ ProcessFrame(1, f, 0, "frame2")
          /\ Remember(f)
          /\ seen' = Append(seen, f)
    /\ UNCHANGED polls

FuseFrame2 ==
    /\ pc = "frame2"
    /\ \E f \in Frames(2) :
          /\ ProcessFrame(2, f, 0, "decide")
          /\ Remember(f)
          /\ seen' = Append(seen, f)
    /\ UNCHANGED polls

FuseNext == FuseFrame1 \/ FuseFrame2 \/ Decide

FuseSpec == FuseInit /\ [][FuseNext]_vars

\* ---------------------------------------------------------- pure functions

\* Positions and target centres steer is applied to.
SteerPoints ==
    {<<0, 0>>, <<100, 100>>, <<400, 100>>, <<0, 100>>, <<160, 170>>,
     <<300, 250>>, <<100, 99>>}

\* Headings steer is applied to; detect_car's atan2 yields [-PI, PI].
SteerHeadings == {-PI, -HALF_PI, -501, -500, 0, 500, 501, HALF_PI, PI}

SteerArgs ==
    {[fn |-> "steer", pos |-> p, hdg |-> a, target |-> t] :
        p \in SteerPoints, a \in SteerHeadings, t \in SteerPoints}

\* Positions and frame sizes from_pos is applied to.
FromPosArgs ==
    {[fn |-> "from_pos", x |-> x, y |-> y, w |-> d[1], h |-> d[2]] :
        x \in {0, 319, 320, 321, 639}, y \in {0, 239, 240, 241, 479},
        d \in {<<640, 480>>, <<641, 481>>}}

\* The loop's variables while only the pure functions are exercised.
LoopIdle ==
    /\ tl = None /\ tr = None /\ bl = None /\ br = None
    /\ target = None
    /\ elapsed = ORACLE_PERIOD
    /\ no_car_count = 0
    /\ oracle_env = None
    /\ pc = "call"
    /\ car = None /\ w = None /\ h = None
    /\ slept = 0 /\ det_errs = 0
    /\ sent = <<>>
    /\ outcome = "Start"
    /\ miss_run = 0 /\ spins = 0
    /\ last_seen = NothingSeen
    /\ seen = <<>>
    /\ polls = NoPolls

PureInit ==
    /\ LoopIdle
    /\ fn_in \in {Some(a) : a \in SteerArgs \cup FromPosArgs}
    /\ fn_out = None

\* steer is applied; err is its local variable after the normalization.
CallSteer ==
    /\ fn_out = None
    /\ Unwrap(fn_in).fn = "steer"
    /\ LET a == Unwrap(fn_in)
       IN  fn_out' = Some([cmd |-> steer(a.pos, a.hdg, a.target),
                           err |-> heading_error(a.pos, a.hdg, a.target)])
    /\ UNCHANGED <<tl, tr, bl, br, target, elapsed, no_car_count, oracle_env,
                   pc, car, w, h, slept, det_errs, sent, outcome, miss_run,
                   spins, last_seen, seen, polls, fn_in>>

\* Quadrant::from_pos is applied.
CallFromPos ==
    /\ fn_out = None
    /\ Unwrap(fn_in).fn = "from_pos"
    /\ LET a == Unwrap(fn_in)
       IN  fn_out' = Some([quadrant |-> from_pos(a.x, a.y, a.w, a.h)])
    /\ UNCHANGED <<tl, tr, bl, br, target, elapsed, no_car_count, oracle_env,
                   pc, car, w, h, slept, det_errs, sent, outcome, miss_run,
                   spins, last_seen, seen, polls, fn_in>>

PureNext == CallSteer \/ CallFromPos

PureSpec == PureInit /\ [][PureNext]_vars

\* ------------------------------------------------------------------ claims

\* The result of a steer call, once made.
SteerDone == IsSome(fn_out) /\ Unwrap(fn_in).fn = "steer"

\* Squared distance between two points.
Dist2(p, q) == (p[1] - q[1]) * (p[1] - q[1]) + (p[2] - q[2]) * (p[2] - q[2])

\* C6: steer turns iff the absolute normalized heading error exceeds 0.50
\* rad; a turn has speed magnitude 0.20 and a drive has speed
\* clamp(distance / 300, 0.45, 0.85), distance being Euclidean.
C6_SteerLaw ==
    SteerDone =>
        LET a    == Unwrap(fn_in)
            out  == Unwrap(fn_out)
            d2   == Dist2(a.pos, a.target)
            \* floor(1000 * sqrt(d2) / 300), by its defining inequalities
            frac == CHOOSE v \in 0..3000 :
                        /\ 9 * v * v <= 100 * d2
                        /\ 9 * (v + 1) * (v + 1) > 100 * d2
        IN  /\ out.cmd.flip = (Abs(out.err) > 500)
            /\ out.cmd.flip => Abs(out.cmd.speed) = 200
            /\ ~out.cmd.flip =>
                  out.cmd.speed = (IF frac < 450 THEN 450
                                   ELSE IF frac > 850 THEN 850 ELSE frac)

\* C6 witness: the vehicle at (100,100) heading 0 with the target centre at
\* (400,100) drives forward at 0.85.
C6_Witness ==
    /\ SteerDone
    /\ Unwrap(fn_in).pos = <<100, 100>>
    /\ Unwrap(fn_in).hdg = 0
    /\ Unwrap(fn_in).target = <<400, 100>>
    /\ Unwrap(fn_out).err = 0
    /\ Unwrap(fn_out).cmd = [speed |-> 850, flip |-> FALSE]

\* C7 as stated: a positive heading error beyond the tolerance yields the
\* turn command with speed -0.20 x polarity.
C7_AsStated ==
    (SteerDone /\ Unwrap(fn_out).err > 500) =>
        Unwrap(fn_out).cmd = [speed |-> -200 * TURN_POLARITY, flip |-> TRUE]

\* C7 amended: a positive heading error beyond the tolerance yields the turn
\* command with speed +0.20 x polarity, which is -0.20 for the polarity -1.
C7_TurnSign ==
    (SteerDone /\ Unwrap(fn_out).err > 500) =>
        /\ Unwrap(fn_out).cmd = [speed |-> 200 * TURN_POLARITY, flip |-> TRUE]
        /\ Unwrap(fn_out).cmd.speed = -200

\* C7 witness: the vehicle at (0,0) heading 0 with the target centre at
\* (0,100) has error +pi/2 and turns.
C7_Witness ==
    /\ SteerDone
    /\ Unwrap(fn_in).pos = <<0, 0>>
    /\ Unwrap(fn_in).hdg = 0
    /\ Unwrap(fn_in).target = <<0, 100>>
    /\ Unwrap(fn_out).err = HALF_PI
    /\ Unwrap(fn_out).cmd.flip

\* C8 as stated: the normalized heading error lies in (-pi, pi], -pi itself
\* excluded, and normalizing it again changes nothing.
C8_AsStated ==
    SteerDone =>
        /\ Unwrap(fn_out).err > -PI
        /\ Unwrap(fn_out).err <= PI
        /\ normalize(Unwrap(fn_out).err) = Unwrap(fn_out).err

\* C8 amended: the normalized heading error lies in the closed interval
\* [-pi, pi], -pi included, and normalizing it again changes nothing.
C8_ClosedInterval ==
    SteerDone =>
        /\ Unwrap(fn_out).err >= -3142
        /\ Unwrap(fn_out).err <= 3142
        /\ normalize(Unwrap(fn_out).err) = Unwrap(fn_out).err

\* C8 witness: a target straight ahead along +x (bearing 0) with the heading
\* pi leaves the error at -pi.
C8_Witness ==
    /\ SteerDone
    /\ Unwrap(fn_in).pos = <<100, 100>>
    /\ Unwrap(fn_in).target = <<400, 100>>
    /\ Unwrap(fn_in).hdg = PI
    /\ Unwrap(fn_out).err = -PI

\* The result of a from_pos call, once made.
FromPosDone == IsSome(fn_out) /\ Unwrap(fn_in).fn = "from_pos"

RightQuadrants == {"TopRight", "BottomRight"}

BottomQuadrants == {"BottomLeft", "BottomRight"}

\* C9 as stated: from_pos yields one of the four quadrants, and a point on a
\* midline goes to the greater side (right, bottom).
C9_AsStated ==
    FromPosDone =>
        LET a == Unwrap(fn_in)
            q == Unwrap(fn_out).quadrant
        IN  /\ q \in Quadrants
            /\ 2 * a.x = a.w => q \in RightQuadrants
            /\ 2 * a.y = a.h => q \in BottomQuadrants

\* C9 amended: from_pos yields one of the four quadrants, right iff x is
\* strictly beyond width/2 and bottom iff y is strictly beyond height/2, so a
\* point on a midline goes to the lesser side (left, top).
C9_MidlineLow ==
    FromPosDone =>
        LET a == Unwrap(fn_in)
            q == Unwrap(fn_out).quadrant
        IN  /\ q \in Quadrants
            /\ (q \in RightQuadrants) = (2 * a.x > a.w)
            /\ (q \in BottomQuadrants) = (2 * a.y > a.h)
            /\ 2 * a.x = a.w => q \notin RightQuadrants
            /\ 2 * a.y = a.h => q \notin BottomQuadrants

\* C9 witness: the centre of a 640 x 480 frame is classified TopLeft.
C9_Witness ==
    /\ FromPosDone
    /\ Unwrap(fn_in).x = 320 /\ Unwrap(fn_in).w = 640
    /\ Unwrap(fn_in).y = 240 /\ Unwrap(fn_in).h = 480
    /\ Unwrap(fn_out).quadrant = "TopLeft"

\* The commands dispatched in the last completed tick.
SentCmds == {sent[i].cmd : i \in 1..Len(sent)}

\* The speed invariant of the data model: a turn has speed magnitude 0.20, a
\* forward command a speed in [0.45, 0.85].
SpeedInvariant(c) ==
    /\ c.flip => Abs(c.speed) = 200
    /\ ~c.flip => (450 <= c.speed /\ c.speed <= 850)

\* C1 as stated: a tick with a target set in which both frames are absent or
\* both detector calls fail ends as a vehicle-missing tick: the miss counter
\* goes up by one, the search spin goes out if the counter then exceeds 3,
\* and the loop goes on to the next tick.
C1_NoFrameIsMiss ==
    [][(pc = "decide" /\ IsSome(target) /\ w = None /\ slept \in {0, 2 * TICK_SLEEP})
          => /\ outcome' = "CarMissing"
             /\ no_car_count' = no_car_count + 1
             /\ (no_car_count' > 3) = (Len(sent') = 1)
             /\ pc' = "loop"]_vars

\* C2 as stated: whatever fails, the process never aborts.
C2_NeverAborts == pc # "panicked"

\* C3 as stated: every dispatched command satisfies the speed invariant.
C3_AsStated == \A c \in SentCmds : SpeedInvariant(c)

\* C3 amended: every command dispatched in a Steering tick satisfies the
\* speed invariant; the hold command of an Arrived tick is speed 0.0 with the
\* turn flag false and the search spin of a CarMissing tick is speed
\* 0.45 x polarity with the turn flag true.
C3_SteeringSpeeds ==
    \A c \in SentCmds :
        /\ outcome \in {"Steering", "Arrived", "CarMissing"}
        /\ outcome = "Steering" => SpeedInvariant(c)
        /\ outcome = "Arrived" => c = [speed |-> 0, flip |-> FALSE]
        /\ outcome = "CarMissing" => c = [speed |-> -450, flip |-> TRUE]

\* C3 witness: a Steering tick dispatched a forward command at the upper
\* clamp.
C3_Witness ==
    /\ outcome = "Steering"
    /\ SentCmds = {[speed |-> 850, flip |-> FALSE]}

\* C4: in a run of vehicle-missing ticks that started with the counter at
\* zero, the first three dispatch nothing and the fourth dispatches the one
\* search spin (0.45 x polarity, turn flag true); a vehicle-missing tick
\* spins iff the counter then exceeds 3.
C4_MissCounting ==
    outcome = "CarMissing" =>
        /\ miss_run \in 1..3 => (spins = 0 /\ sent = <<>>)
        /\ miss_run = 4 =>
              (spins = 1 /\ SentCmds = {[speed |-> 450 * TURN_POLARITY, flip |-> TRUE]})
        /\ (sent # <<>>) = (no_car_count > 3)

\* C4 witness: the fourth vehicle-missing tick in a row has sent the first
\* spin.
C4_Witness ==
    /\ outcome = "CarMissing"
    /\ miss_run = 4
    /\ no_car_count = 4
    /\ spins = 1
    /\ Len(sent) = 1

\* The outcome the precedence order gives the tick that is about to decide.
OutcomeByPrecedence ==
    IF target = None THEN "NoTarget"
    ELSE IF car = None THEN "CarMissing"
    ELSE IF slot_of(Unwrap(target)) = None THEN "TargetUnresolvable"
    ELSE IF Dist2(Unwrap(car).pos, Unwrap(slot_of(Unwrap(target))).pos) < 2500
         THEN "Arrived"
    ELSE "Steering"

\* C5 as stated: every tick ends in the first outcome of the precedence
\* order whose condition holds and dispatches at most one command: none in
\* NoTarget and TargetUnresolvable, the hold in Arrived, steer's command in
\* Steering, the search spin or nothing in CarMissing.
C5_TickOutcomes ==
    [][/\ (pc = "loop" /\ pc' = "loop") =>
             (target' = None /\ outcome' = "NoTarget" /\ sent' = <<>>)
       /\ pc = "decide" =>
             /\ outcome' = OutcomeByPrecedence
             /\ Len(sent') <= 1
             /\ outcome' = "TargetUnresolvable" => sent' = <<>>
             /\ outcome' = "Arrived" =>
                   {sent'[i].cmd : i \in 1..Len(sent')} = {[speed |-> 0, flip |-> FALSE]}
             /\ outcome' = "Steering" =>
                   {sent'[i].cmd : i \in 1..Len(sent')} =
                       {steer(Unwrap(car).pos, Unwrap(car).hdg,
                              Unwrap(slot_of(Unwrap(target))).pos)}
             /\ outcome' = "CarMissing" =>
                   {sent'[i].cmd : i \in 1..Len(sent')} \subseteq
                       {[speed |-> 450 * TURN_POLARITY, flip |-> TRUE]}]_vars

\* The last completed tick found the vehicle and knew the target centre.
FoundAndResolved ==
    /\ pc = "loop"
    /\ IsSome(car)
    /\ IsSome(target)
    /\ IsSome(slot_of(Unwrap(target)))

\* C10: when the vehicle is found and the target centre known, the hold
\* command is dispatched iff the distance to the target centre is strictly
\* below 50 px, whatever the heading; otherwise (50 px included) the tick is
\* a Steering tick. Such a tick never aborts.
C10_ArrivalThreshold ==
    /\ pc = "panicked" => car = None
    /\ FoundAndResolved =>
          LET d2 == Dist2(Unwrap(car).pos, Unwrap(slot_of(Unwrap(target))).pos)
          IN  /\ (SentCmds = {[speed |-> 0, flip |-> FALSE]}) = (d2 < 2500)
              /\ (outcome = "Arrived") = (d2 < 2500)
              /\ (outcome = "Steering") = (d2 >= 2500)
              /\ Len(sent) = 1

\* C10 witness: a vehicle exactly 50 px from the target centre was steered,
\* not held.
C10_Witness ==
    /\ FoundAndResolved
    /\ Dist2(Unwrap(car).pos, Unwrap(slot_of(Unwrap(target))).pos) = 2500
    /\ outcome = "Steering"
    /\ SentCmds # {[speed |-> 0, flip |-> FALSE]}

\* ------------------------------------------------------------ oracle polls

\* The latest poll attempt starts a run: the attempt before it did not
\* succeed with the same quadrant.
FirstOfRun ==
    ~(polls.prev.kind = "ok" /\ polls.prev.q = polls.res.q)

\* C11 as stated: a notification only on a successful poll whose quadrant
\* differs from TargetState, and every run of consecutive successful polls
\* returning the same quadrant has exactly one notification, at its first
\* poll.
C11_AsStated ==
    /\ polls.note => (polls.res.kind = "ok" /\ polls.res.q # polls.before)
    /\ polls.res.kind = "ok" => (polls.note <=> FirstOfRun)

\* C11: TargetState changes and the new-target notification is emitted
\* exactly on the successful polls whose quadrant differs from TargetState;
\* a run of consecutive successful polls returning the same quadrant has at
\* most one notification, at its first poll, and it has none exactly when
\* it follows a failed poll and returns the quadrant TargetState already
\* holds.
C11_Debounce ==
    /\ polls.note <=> (polls.res.kind = "ok" /\ polls.res.q # polls.before)
    /\ (target # polls.before) <=> polls.note
    /\ polls.note => target = polls.res.q
    /\ (polls.res.kind = "ok" /\ ~FirstOfRun) => ~polls.note
    /\ (polls.res.kind = "ok" /\ FirstOfRun /\ ~polls.note)
         => (polls.prev.kind = "err" /\ polls.res.q = polls.before)

\* A second successful poll of a run, which notified nothing.
C11_Witness ==
    /\ polls.res.kind = "ok" /\ polls.prev.kind = "ok"
    /\ polls.prev.q = polls.res.q
    /\ ~polls.note
    /\ target = polls.res.q

\* C12: a failed oracle poll leaves TargetState as it was, and TargetState,
\* once set, is never unset again.
C12_FailedPollKeepsTarget ==
    /\ polls.res.kind = "err" => target = polls.before
    /\ IsSome(polls.before) => IsSome(target)
    /\ IsSome(polls.start) => IsSome(target)

\* A tick whose poll failed while a target was set.
C12_Witness ==
    /\ polls.polled /\ polls.res.kind = "err"
    /\ IsSome(polls.before) /\ target = polls.before
    /\ outcome = "Steering"

\* Some tick has begun.
Ticked == polls.first # "pending"

\* C14: a tick polls the oracle exactly when at least two seconds have
\* passed since the previous poll attempt, whose end restarts the clock
\* whether it succeeded or failed; the first tick polls; a tick on which
\* the poll is not due keeps TargetState and, when it is set, goes on to
\* its camera and steering work.
C14_PollCadence ==
    /\ Ticked => (polls.polled <=> polls.waited >= ORACLE_PERIOD)
    /\ polls.first # "skipped"
    /\ (polls.polled /\ pc = "frame1") => elapsed = 0
    /\ (polls.polled /\ outcome = "NoTarget") => elapsed = IDLE_SLEEP
    /\ (Ticked /\ ~polls.polled)
         => /\ target = polls.start
            /\ polls.waited < ORACLE_PERIOD
            /\ IsSome(target) => outcome # "NoTarget"

\* A tick right after a failed poll did not poll and steered.
C14_Witness ==
    /\ Ticked /\ ~polls.polled
    /\ polls.res.kind = "err"
    /\ polls.waited < ORACLE_PERIOD
    /\ outcome = "Steering"

\* --------------------------------------------------- cadence and counters

\* The iteration before this state ran to its end.
TickEnded == pc = "loop" /\ outcome # "Start"

\* C13 as stated: every iteration sleeps exactly 100 ms in total before
\* the next one begins.
C13_AsStated == TickEnded => slept = TICK_SLEEP

\* C13: an iteration that runs to its end sleeps 200 ms when it is a
\* NoTarget iteration, and otherwise 100 ms plus 100 ms for each detector
\* call that failed in it.
C13_SleepPerIteration ==
    TickEnded =>
        slept = IF outcome = "NoTarget" THEN IDLE_SLEEP
                ELSE TICK_SLEEP + det_errs * TICK_SLEEP

\* An iteration in which one detector call failed slept 200 ms.
C13_Witness ==
    /\ TickEnded
    /\ outcome = "Steering"
    /\ det_errs = 1
    /\ slept = 2 * TICK_SLEEP

\* C17: a tick that finds TargetState unset fetches and detects nothing,
\* dispatches nothing and leaves LandmarkMemory and the miss counter as they
\* were; it goes back to the top of the loop (or dies in the poll).
C17_NoTargetTick ==
    [][(pc = "loop" /\ target' = None)
        => /\ UNCHANGED <<tl, tr, bl, br, no_car_count, last_seen>>
           /\ sent' = <<>>
           /\ car' = None /\ w' = None /\ h' = None
           /\ det_errs' = 0
           /\ pc' \in {"loop", "panicked"}]_vars

\* Two NoTarget ticks in a row: one that polled in vain, one that did not
\* poll.
C17_Witness ==
    /\ outcome = "NoTarget"
    /\ target = None
    /\ elapsed = 2 * IDLE_SLEEP
    /\ pc = "loop"

\* C19: the miss counter is zero after every tick that found the vehicle
\* (Arrived, Steering, TargetUnresolvable, whatever the dispatch did), one
\* more after every CarMissing tick and untouched by NoTarget ticks, so it
\* equals the number of vehicle-missing ticks since the last vehicle-found
\* tick; every CarMissing tick from the fourth in a row onward dispatches
\* the search spin.
C19_MissCounter ==
    /\ no_car_count = miss_run
    /\ outcome \in {"Arrived", "Steering", "TargetUnresolvable"}
         => no_car_count = 0
    /\ outcome = "NoTarget" => no_car_count = 0
    /\ outcome = "CarMissing"
         => /\ no_car_count >= 1
            /\ no_car_count >= 4
                 => /\ Len(sent) = 1
                    /\ sent[1].cmd = spin_cmd
                    /\ spins = no_car_count - 3
            /\ no_car_count < 4 => (sent = <<>> /\ spins = 0)

\* The fifth vehicle-missing tick in a row has dispatched the second spin,
\* which failed.
C19_Witness ==
    /\ outcome = "CarMissing"
    /\ no_car_count = 5
    /\ spins = 2
    /\ Len(sent) = 1 /\ ~sent[1].ok

\* ------------------------------------------------ frames and landmark memory

\* The landmark marker of a quadrant.
marker_of(q) ==
    IF q = "TopLeft" THEN ID_TL ELSE IF q = "TopRight" THEN ID_TR
    ELSE IF q = "BottomLeft" THEN ID_BL ELSE ID_BR

\* C16: every landmark slot holds the latest observation of its marker in
\* any successfully detected frame, and nothing while the marker was never
\* seen, so a populated slot is never cleared and changes only by being
\* overwritten; the target centre is absent (TargetUnresolvable) only if
\* the target's marker was never seen.
C16_LandmarkMemory ==
    /\ \A q \in Quadrants : slot_of(q) = last_seen[marker_of(q)]
    /\ outcome = "TargetUnresolvable"
         => last_seen[marker_of(Unwrap(target))] = None
    /\ outcome \in {"Arrived", "Steering"}
         => IsSome(last_seen[marker_of(Unwrap(target))])

\* Camera 2's observation of the top-left landmark has overwritten what the
\* slot held, while the bottom-right slot still holds camera 1's.
C16_Witness ==
    /\ tl = Some(Obs(LandmarkAt(2, ID_TL), 0))
    /\ br = Some(Obs(LandmarkAt(1, ID_BR), 0))
    /\ last_seen[ID_TL] = tl
    /\ tr = None
    /\ outcome = "TargetUnresolvable"

\* The frames of the tick are processed.
Fused == Len(seen) = 2

HasCar(f) == f.kind = "detected" /\ CAR_MARKER_ID \in DOMAIN f.items

CarOf(f) == Some(f.items[CAR_MARKER_ID])

\* The frame shows the landmark of the targeted quadrant.
ShowsTarget(f) ==
    f.kind = "detected" /\ marker_of(Unwrap(target)) \in DOMAIN f.items

\* The vehicle observation the fusion rule gives for the two frames.
RuleCar ==
    IF HasCar(seen[1])
    THEN (IF HasCar(seen[2]) /\ ShowsTarget(seen[2])
          THEN CarOf(seen[2]) ELSE CarOf(seen[1]))
    ELSE IF HasCar(seen[2]) THEN CarOf(seen[2]) ELSE None

\* C15: the fused vehicle observation is that of the first frame showing
\* the vehicle marker, unless the later frame shows the vehicle marker and
\* the landmark of the targeted quadrant, whose observation is then used; a
\* later frame without the vehicle marker erases nothing.
C15_FusedCar ==
    /\ Len(seen) = 1
         => car = IF HasCar(seen[1]) THEN CarOf(seen[1]) ELSE None
    /\ Fused => car = RuleCar
    /\ (Fused /\ HasCar(seen[1]) /\ ~HasCar(seen[2])) => car = CarOf(seen[1])

\* Both frames show the vehicle, at different poses, and the second one
\* shows the target landmark: its observation is the fused one.
C15_Witness ==
    /\ Fused
    /\ HasCar(seen[1]) /\ HasCar(seen[2]) /\ ShowsTarget(seen[2])
    /\ CarOf(seen[1]) # CarOf(seen[2])
    /\ car = CarOf(seen[2])
    /\ outcome = "Steering"

\* What a frame alone gives a tick: its vehicle observation and its size.
AloneDecides(f) ==
    /\ car = Get(f.items, CAR_MARKER_ID)
    /\ w = Some(f.cols) /\ h = Some(f.rows)
    /\ \A q \in Quadrants :
          marker_of(q) \in DOMAIN f.items
             => slot_of(q) = Some(f.items[marker_of(q)])

\* C18: the step that processes a frame whose detector call fails changes
\* no landmark slot, no vehicle observation and no frame size; when one
\* frame failed and the other was detected, the other alone gives the
\* tick its vehicle observation, frame size and landmark updates.
C18_FailedFrame ==
    /\ [][(Len(seen') = Len(seen) + 1
             /\ seen'[Len(seen')].kind = "undetectable")
            => /\ UNCHANGED <<tl, tr, bl, br, car, w, h>>
               /\ det_errs' = det_errs + 1]_vars
    /\ [](Fused =>
            /\ (seen[1].kind = "undetectable" /\ seen[2].kind = "detected")
                 => AloneDecides(seen[2])
            /\ (seen[2].kind = "undetectable" /\ seen[1].kind = "detected")
                 => AloneDecides(seen[1]))

\* Camera 1's detection failed and camera 2's frame alone led to a hold.
C18_Witness ==
    /\ Fused
    /\ seen[1].kind = "undetectable" /\ seen[2].kind = "detected"
    /\ det_errs = 1
    /\ outcome = "Arrived"

\* The tick decided Arrived or Steering and a frame of it showed the
\* target landmark.
DecidedOnSeenTarget ==
    /\ Fused
    /\ outcome \in {"Arrived", "Steering"}
    /\ ShowsTarget(seen[1]) \/ ShowsTarget(seen[2])

\* The vehicle pose and the target centre used are those of frame f.
BothFrom(f) ==
    /\ HasCar(f) /\ ShowsTarget(f)
    /\ car = CarOf(f)
    /\ slot_of(Unwrap(target)) = Some(f.items[marker_of(Unwrap(target))])

SameFrame == BothFrom(seen[1]) \/ BothFrom(seen[2])

\* The last frame of the tick that shows the target landmark.
LastTargetFrame == IF ShowsTarget(seen[2]) THEN seen[2] ELSE seen[1]

\* C20 as stated: whenever the target landmark was observed in the tick and
\* Arrived or Steering is decided, the vehicle pose and the target centre
\* come from the same camera frame.
C20_AsStated == DecidedOnSeenTarget => SameFrame

\* C20: in such a tick the target centre is that of the last frame showing
\* the target landmark, and the vehicle pose comes from the same frame
\* exactly when that frame also shows the vehicle marker.
C20_SourceConsistency ==
    DecidedOnSeenTarget =>
        /\ slot_of(Unwrap(target))
             = Some(LastTargetFrame.items[marker_of(Unwrap(target))])
        /\ SameFrame <=> HasCar(LastTargetFrame)

\* Camera 1 shows the vehicle and the target landmark, camera 2 the target
\* landmark only: the pose is camera 1's, the target centre camera 2's.
C20_Witness ==
    /\ DecidedOnSeenTarget
    /\ BothFrom(seen[1]) = FALSE
    /\ HasCar(seen[1]) /\ ShowsTarget(seen[1])
    /\ ShowsTarget(seen[2]) /\ ~HasCar(seen[2])
    /\ car = CarOf(seen[1])

====
